---- MODULE Spec2Model ----
(***************************************************************************)
(* A model of the Scrabble-style Board of dictionary.py: the grid, the     *)
(* multiplier grid, the undo record, and the operations play_word (with    *)
(* set_word, the legality rules and the scoring) and undo_play.            *)
(*                                                                         *)
(* Python values are modelled as follows.  A string is a sequence of       *)
(* one-character strings.  A list is a sequence, and list[i] with Python's *)
(* index rules (0-based, a negative index counts from the end, an index    *)
(* outside -len..len-1 raises IndexError) is PyGet/PyInRange.  A call that  *)
(* raises leaves the object as it was at the raise; the exception is       *)
(* recorded in the variable raised.                                        *)
(***************************************************************************)
EXTENDS Integers, Sequences, FiniteSets, TLC

\* ------------------------------------------------------------ bounds
\* The number of calls made on one Board.
MaxCalls == 3

\* The number of words inserted into one Dictionary.
MaxWords == 3

\* The number of letters of a word that is scored.
MaxLetters == 3

\* The number of Dictionary and Board objects constructed.
MaxObjects == 3

\* ------------------------------------------------------------ module globals
None == "None"
NoError == "NoError"
IndexError == "IndexError"
KeyError == "KeyError"

BLANK_TILE_CHAR == "?"

LETTER_DISTRIBUTION ==
    << <<"A","9">>, <<"B","2">>, <<"C","2">>, <<"D","4">>, <<"E","1","2">>, <<"F","2">>,
       <<"G","3">>, <<"H","2">>, <<"I","9">>, <<"J","1">>, <<"K","1">>, <<"L","4">>,
       <<"M","2">>, <<"N","6">>, <<"O","8">>, <<"P","2">>, <<"Q","1">>, <<"R","6">>,
       <<"S","4">>, <<"T","6">>, <<"U","4">>, <<"V","2">>, <<"W","2">>, <<"X","1">>,
       <<"Y","2">>, <<"Z","1">>, <<BLANK_TILE_CHAR,"2">> >>

LETTER_SCORING ==
    << 1, 3, 3, 2, 1, 4, 2, 4, 1,
       8, 5, 1, 3, 1, 1, 3, 10, 1,
       1, 1, 1, 4, 4, 8, 4, 10,
       0 >>

LETTER_DICTIONARY ==
    ("A" :> 0 @@ "B" :> 1 @@ "C" :> 2 @@ "D" :> 3 @@ "E" :> 4 @@ "F" :> 5 @@ "G" :> 6 @@
     "H" :> 7 @@ "I" :> 8 @@ "J" :> 9 @@ "K" :> 10 @@ "L" :> 11 @@ "M" :> 12 @@
     "N" :> 13 @@ "O" :> 14 @@ "P" :> 15 @@ "Q" :> 16 @@ "R" :> 17 @@ "S" :> 18 @@
     "T" :> 19 @@ "U" :> 20 @@ "V" :> 21 @@ "W" :> 22 @@ "X" :> 23 @@ "Y" :> 24 @@
     "Z" :> 25 @@ BLANK_TILE_CHAR :> 26)

WORD_MULTIPLIER == "W"
LETTER_MULTIPLIER == "L"

SCRABBLE_BOARD_MULTIPLIERS ==
    <<
       << <<"3","W">>, <<"1","L">>, <<"1","L">>, <<"2","L">>, <<"1","L">>, <<"1","L">>, <<"1","L">>, <<"3","W">>, <<"1","L">>, <<"1","L">>, <<"1","L">>, <<"2","L">>, <<"1","L">>, <<"1","L">>, <<"3","W">> >>,
       << <<"1","L">>, <<"2","W">>, <<"1","L">>, <<"1","L">>, <<"1","L">>, <<"3","L">>, <<"1","L">>, <<"1","L">>, <<"1","L">>, <<"3","L">>, <<"1","L">>, <<"1","L">>, <<"1","L">>, <<"2","W">>, <<"1","L">> >>,
       << <<"1","L">>, <<"1","L">>, <<"2","W">>, <<"1","L">>, <<"1","L">>, <<"1","L">>, <<"2","L">>, <<"1","L">>, <<"2","L">>, <<"1","L">>, <<"1","L">>, <<"1","L">>, <<"2","W">>, <<"1","L">>, <<"1","L">> >>,
       << <<"2","L">>, <<"1","L">>, <<"1","L">>, <<"2","W">>, <<"1","L">>, <<"1","L">>, <<"1","L">>, <<"2","L">>, <<"1","L">>, <<"1","L">>, <<"1","L">>, <<"2","W">>, <<"1","L">>, <<"1","L">>, <<"2","L">> >>,
       << <<"1","L">>, <<"1","L">>, <<"1","L">>, <<"1","L">>, <<"2","W">>, <<"1","L">>, <<"1","L">>, <<"1","L">>, <<"1","L">>, <<"1","L">>, <<"2","W">>, <<"1","L">>, <<"1","L">>, <<"1","L">>, <<"1","L">> >>,
       << <<"1","L">>, <<"3","L">>, <<"1","L">>, <<"1","L">>, <<"1","L">>, <<"3","L">>, <<"1","L">>, <<"1","L">>, <<"1","L">>, <<"3","L">>, <<"1","L">>, <<"1","L">>, <<"1","L">>, <<"3","L">>, <<"1","L">> >>,
       << <<"1","L">>, <<"1","L">>, <<"2","L">>, <<"1","L">>, <<"1","L">>, <<"1","L">>, <<"2","L">>, <<"1","L">>, <<"2","L">>, <<"1","L">>, <<"1","L">>, <<"1","L">>, <<"2","L">>, <<"1","L">>, <<"1","L">> >>,
       << <<"3","W">>, <<"1","L">>, <<"1","L">>, <<"2","L">>, <<"1","L">>, <<"1","L">>, <<"1","L">>, <<"2","W">>, <<"1","L">>, <<"1","L">>, <<"1","L">>, <<"2","L">>, <<"1","L">>, <<"1","L">>, <<"3","W">> >>,
       << <<"1","L">>, <<"1","L">>, <<"2","L">>, <<"1","L">>, <<"1","L">>, <<"1","L">>, <<"2","L">>, <<"1","L">>, <<"2","L">>, <<"1","L">>, <<"1","L">>, <<"1","L">>, <<"2","L">>, <<"1","L">>, <<"1","L">> >>,
       << <<"1","L">>, <<"3","L">>, <<"1","L">>, <<"1","L">>, <<"1","L">>, <<"3","L">>, <<"1","L">>, <<"1","L">>, <<"1","L">>, <<"3","L">>, <<"1","L">>, <<"1","L">>, <<"1","L">>, <<"3","L">>, <<"1","L">> >>,
       << <<"1","L">>, <<"1","L">>, <<"1","L">>, <<"1","L">>, <<"2","W">>, <<"1","L">>, <<"1","L">>, <<"1","L">>, <<"1","L">>, <<"1","L">>, <<"2","W">>, <<"1","L">>, <<"1","L">>, <<"1","L">>, <<"1","L">> >>,
       << <<"2","L">>, <<"1","L">>, <<"1","L">>, <<"2","W">>, <<"1","L">>, <<"1","L">>, <<"1","L">>, <<"2","L">>, <<"1","L">>, <<"1","L">>, <<"1","L">>, <<"2","W">>, <<"1","L">>, <<"1","L">>, <<"2","L">> >>,
       << <<"1","L">>, <<"1","L">>, <<"2","W">>, <<"1","L">>, <<"1","L">>, <<"1","L">>, <<"2","L">>, <<"1","L">>, <<"2","L">>, <<"1","L">>, <<"1","L">>, <<"1","L">>, <<"2","W">>, <<"1","L">>, <<"1","L">> >>,
       << <<"1","L">>, <<"2","W">>, <<"1","L">>, <<"1","L">>, <<"1","L">>, <<"3","L">>, <<"1","L">>, <<"1","L">>, <<"1","L">>, <<"3","L">>, <<"1","L">>, <<"1","L">>, <<"1","L">>, <<"2","W">>, <<"1","L">> >>,
       << <<"3","W">>, <<"1","L">>, <<"1","L">>, <<"2","L">>, <<"1","L">>, <<"1","L">>, <<"1","L">>, <<"3","W">>, <<"1","L">>, <<"1","L">>, <<"1","L">>, <<"2","L">>, <<"1","L">>, <<"1","L">>, <<"3","W">> >>
    >>

INVALID_PLAY == -1
DOWN == "DOWN"
RIGHT == "RIGHT"

\* ------------------------------------------------------------ Python helpers
\* list[i] is defined for -len <= i < len
PyInRange(list, i) == -Len(list) <= i /\ i < Len(list)

\* list[i]; a negative index counts from the end of the list
PyGet(list, i) == IF i < 0 THEN list[Len(list) + i + 1] ELSE list[i + 1]

\* str.upper() on one character
LOWER_TO_UPPER ==
    ("a" :> "A" @@ "b" :> "B" @@ "c" :> "C" @@ "d" :> "D" @@ "e" :> "E" @@ "f" :> "F" @@
     "g" :> "G" @@ "h" :> "H" @@ "i" :> "I" @@ "j" :> "J" @@ "k" :> "K" @@ "l" :> "L" @@
     "m" :> "M" @@ "n" :> "N" @@ "o" :> "O" @@ "p" :> "P" @@ "q" :> "Q" @@ "r" :> "R" @@
     "s" :> "S" @@ "t" :> "T" @@ "u" :> "U" @@ "v" :> "V" @@ "w" :> "W" @@ "x" :> "X" @@
     "y" :> "Y" @@ "z" :> "Z")

upper_char(ch) == IF ch \in DOMAIN LOWER_TO_UPPER THEN LOWER_TO_UPPER[ch] ELSE ch

\* str.upper()
upper(word) == [i \in 1..Len(word) |-> upper_char(word[i])]

\* str.isalpha on one character
isalpha(ch) == upper_char(ch) \in (DOMAIN LETTER_DICTIONARY) \ {BLANK_TILE_CHAR}

DIGITS ==
    ("0" :> 0 @@ "1" :> 1 @@ "2" :> 2 @@ "3" :> 3 @@ "4" :> 4 @@
     "5" :> 5 @@ "6" :> 6 @@ "7" :> 7 @@ "8" :> 8 @@ "9" :> 9)

\* float(s) of a string of decimal digits (the layouts hold whole numbers)
RECURSIVE float(_)
float(s) ==
    IF Len(s) = 0 THEN 0
    ELSE 10 * float(SubSeq(s, 1, Len(s) - 1)) + DIGITS[s[Len(s)]]

\* ------------------------------------------------------------ Dictionary.get_word_score
\* [raised, value]: the sum of the letters' scores, or KeyError at the first
\* letter that is not a key of LETTER_DICTIONARY, or IndexError at the first
\* letter whose index letter_scoring does not have
RECURSIVE _score_loop(_, _, _, _)
_score_loop(word, letter_scoring, i, total_score) ==
    IF i > Len(word) THEN [raised |-> NoError, value |-> total_score]
    ELSE IF word[i] \notin DOMAIN LETTER_DICTIONARY
    THEN [raised |-> KeyError, value |-> total_score]
    ELSE IF ~PyInRange(letter_scoring, LETTER_DICTIONARY[word[i]])
    THEN [raised |-> IndexError, value |-> total_score]
    ELSE _score_loop(word, letter_scoring, i + 1,
                     total_score + PyGet(letter_scoring, LETTER_DICTIONARY[word[i]]))

\* letter_scoring is None
NoScoring == << >>

\* A faulty get_word_score: the score of the first letter is not added
get_word_score_SkipsFirst(word, letter_scoring) ==
    _score_loop(word, IF letter_scoring = NoScoring THEN LETTER_SCORING ELSE letter_scoring,
                2, 0)

get_word_score(word, letter_scoring) ==
    _score_loop(word, IF letter_scoring = NoScoring THEN LETTER_SCORING ELSE letter_scoring,
                1, 0)

\* ------------------------------------------------------------ Board construction
_create_2d_list(total_rows, total_cols) ==
    [r \in 1..total_rows |-> [c \in 1..total_cols |-> None]]

\* board is None (NoBoard) or a grid; board_multipliers is None (NoLayout) or a layout
NoBoard == << >>

NoLayout == << >>

_set_board(given_board, board_multipliers) ==
    IF given_board = NoBoard /\ board_multipliers = NoLayout
    THEN _create_2d_list(Len(SCRABBLE_BOARD_MULTIPLIERS), Len(SCRABBLE_BOARD_MULTIPLIERS[1]))
    ELSE IF given_board = NoBoard
    THEN _create_2d_list(Len(board_multipliers), Len(board_multipliers[1]))
    ELSE given_board

_set_board_multipliers(board_multipliers) ==
    IF board_multipliers = NoLayout THEN SCRABBLE_BOARD_MULTIPLIERS ELSE board_multipliers

_set_letter_scoring == LETTER_SCORING

\* ------------------------------------------------------------ Board queries
_is_valid_coord(b, row, col) ==
    0 <= row /\ row < Len(b) /\ 0 <= col /\ col < Len(b[1])

\* b[row][col] does not raise
CellInRange(b, row, col) == PyInRange(b, row) /\ PyInRange(PyGet(b, row), col)

\* b[row][col]
Cell(b, row, col) == PyGet(PyGet(b, row), col)

is_empty(b) == \A r \in 1..Len(b) : \A c \in 1..Len(b[r]) : b[r][c] = None

get_score(word) == get_word_score(word, _set_letter_scoring)

\* The index of the first alphabetic character of a multiplier string
RECURSIVE first_alpha(_, _)
first_alpha(tile_multiplier, i) ==
    IF isalpha(PyGet(tile_multiplier, i)) THEN i ELSE first_alpha(tile_multiplier, i + 1)

\* The value of a multiplier string such as "3W": positive for a letter
\* multiplier, negative for a word multiplier
_multiplier_value(tile_multiplier) ==
    IF \E i \in 1..Len(tile_multiplier) : tile_multiplier[i] = WORD_MULTIPLIER
    THEN float(SubSeq(tile_multiplier, 1, first_alpha(tile_multiplier, 0))) * (-1)
    ELSE float(SubSeq(tile_multiplier, 1, first_alpha(tile_multiplier, 0)))

get_multiplier(mults, row, col) == _multiplier_value(Cell(mults, row, col))

\* ------------------------------------------------------------ undo_play
\* A faulty ClearCells: the first coordinate of coords is left as it is
ClearCells_SkipsFirst(b, coords) ==
    [r \in 1..Len(b) |->
        [c \in 1..Len(b[r]) |->
            IF \E k \in 2..Len(coords) : coords[k] = <<r - 1, c - 1>>
            THEN None
            ELSE b[r][c]]]

\* Every coordinate of coords set to None
RECURSIVE ClearCells(_, _)
ClearCells(b, coords) ==
    IF Len(coords) = 0 THEN b
    ELSE ClearCells([b EXCEPT ![Head(coords)[1] + 1][Head(coords)[2] + 1] = None],
                    Tail(coords))

\* ------------------------------------------------------------ _get_cross_word_score
\* The while loop of _get_cross_word_score_piece from (new_row, new_col):
\* [raised, value]
RECURSIVE _piece_walk(_, _, _, _, _, _)
_piece_walk(b, new_row, new_col, new_row_delta, new_col_delta, cross_score) ==
    IF ~CellInRange(b, new_row, new_col)
    THEN [raised |-> IndexError, value |-> cross_score]
    ELSE IF Cell(b, new_row, new_col) = None
    THEN [raised |-> NoError, value |-> cross_score]
    ELSE IF get_score(<<Cell(b, new_row, new_col)>>).raised # NoError
    THEN [raised |-> get_score(<<Cell(b, new_row, new_col)>>).raised,
          value |-> cross_score]
    ELSE _piece_walk(b, new_row + new_row_delta, new_col + new_col_delta,
                     new_row_delta, new_col_delta,
                     cross_score + get_score(<<Cell(b, new_row, new_col)>>).value)

\* The incrementers of _get_cross_word_score_piece
_new_row_delta(cross_dir, is_neg_dir) ==
    IF cross_dir = DOWN THEN (IF is_neg_dir THEN -1 ELSE 1) ELSE 0

_new_col_delta(cross_dir, is_neg_dir) ==
    IF cross_dir = DOWN THEN 0 ELSE (IF is_neg_dir THEN -1 ELSE 1)

_get_cross_word_score_piece(b, row, col, cross_dir, is_neg_dir) ==
    _piece_walk(b, row + _new_row_delta(cross_dir, is_neg_dir),
                col + _new_col_delta(cross_dir, is_neg_dir),
                _new_row_delta(cross_dir, is_neg_dir),
                _new_col_delta(cross_dir, is_neg_dir), 0)

\* The score of the perpendicular word from its two pieces (neg: above or left,
\* pos: below or right) and the score ls of the letter: [raised, value]
_cross_word_total(neg, pos, ls, multiplier) ==
    IF neg.raised # NoError THEN neg
    ELSE IF pos.raised # NoError THEN pos
    ELSE IF ls.raised # NoError THEN ls
    ELSE IF multiplier >= 0
    THEN [raised |-> NoError,
          value |-> neg.value + pos.value + ls.value * multiplier]
    ELSE [raised |-> NoError,
          value |-> (neg.value + pos.value + ls.value) * (-multiplier)]

_new_direction(direction) == IF direction = DOWN THEN RIGHT ELSE DOWN

\* [raised, value]
_get_cross_word_score(b, letter, row, col, direction, multiplier) ==
    _cross_word_total(
        _get_cross_word_score_piece(b, row, col, _new_direction(direction), TRUE),
        _get_cross_word_score_piece(b, row, col, _new_direction(direction), FALSE),
        get_score(<<letter>>), multiplier)

\* ------------------------------------------------------------ _is_touching_word
Filled(b, row, col) == _is_valid_coord(b, row, col) /\ Cell(b, row, col) # None

_is_touching_word(b, last_play_, row, col, direction) ==
    \/ Cell(b, row, col) # None
    \/ /\ direction = DOWN
       /\ (Filled(b, row, col - 1) \/ Filled(b, row, col + 1))
    \/ /\ direction # DOWN
       /\ (Filled(b, row - 1, col) \/ Filled(b, row + 1, col))
    \/ /\ direction = DOWN
       /\ Filled(b, row - 1, col)
       /\ Len(last_play_) = 0
    \/ /\ direction # DOWN
       /\ Filled(b, row, col - 1)
       /\ Len(last_play_) = 0
    \/ /\ direction = DOWN
       /\ Filled(b, row + 1, col)
    \/ /\ direction # DOWN
       /\ Filled(b, row, col + 1)

\* ------------------------------------------------------------ set_word
\* The perpendicular check of a tile just placed at (row, col), whose
\* perpendicular neighbours are (r1, c1) and (r2, c2), and its cross-word
\* score: [raised, value].  The `or' of the check evaluates its second operand
\* only when the first is false.
_cross_check_at(b, letter, row, col, direction, multiplier, r1, c1, r2, c2) ==
    IF ~CellInRange(b, r1, c1)
    THEN [raised |-> IndexError, value |-> 0]
    ELSE IF Cell(b, r1, c1) # None
    THEN _get_cross_word_score(b, letter, row, col, direction, multiplier)
    ELSE IF ~CellInRange(b, r2, c2)
    THEN [raised |-> IndexError, value |-> 0]
    ELSE IF Cell(b, r2, c2) # None
    THEN _get_cross_word_score(b, letter, row, col, direction, multiplier)
    ELSE [raised |-> NoError, value |-> 0]

_cross_check(b, letter, row, col, direction, multiplier) ==
    IF direction = DOWN
    THEN _cross_check_at(b, letter, row, col, direction, multiplier,
                         row, col - 1, row, col + 1)
    ELSE IF direction = RIGHT
    THEN _cross_check_at(b, letter, row, col, direction, multiplier,
                         row - 1, col, row + 1, col)
    ELSE [raised |-> NoError, value |-> 0]

\* A faulty _placed: the coordinate is put at the head of last_play
_placed_RecordsFirst(st, letter) ==
    [st EXCEPT !.board[st.row + 1][st.col + 1] = letter,
               !.last_play = << <<st.row, st.col>> >> \o @]

\* The letter written on the empty cell (st.row, st.col) and recorded for undo
_placed(st, letter) ==
    [st EXCEPT !.board[st.row + 1][st.col + 1] = letter,
               !.last_play = Append(@, <<st.row, st.col>>)]

\* The score ls of the placed letter added to the main-word score
_add_letter(placed, ls, multiplier) ==
    IF multiplier >= 0
    THEN [placed EXCEPT !.score = @ + ls.value * multiplier]
    ELSE [placed EXCEPT !.score = @ + ls.value,
                        !.word_multiplier = @ * (-multiplier)]

\* The cross-word score of the placed letter added to cross_scores
_add_cross(scored, cross) ==
    IF cross.raised # NoError
    THEN [scored EXCEPT !.raised = cross.raised]
    ELSE [scored EXCEPT !.cross_scores = @ + cross.value]

_score_tile(placed, letter, direction, multiplier, ls) ==
    IF ls.raised # NoError
    THEN [placed EXCEPT !.raised = ls.raised]
    ELSE _add_cross(_add_letter(placed, ls, multiplier),
                    _cross_check(placed.board, letter, placed.row, placed.col,
                                 direction, multiplier))

\* The branch of the loop body that places a tile on the empty cell (row, col)
_place_tile(st, mults, letter, direction) ==
    IF ~CellInRange(mults, st.row, st.col)
    THEN [_placed(st, letter) EXCEPT !.raised = IndexError]
    ELSE _score_tile(_placed(st, letter), letter, direction,
                     get_multiplier(mults, st.row, st.col), get_score(<<letter>>))

\* A faulty _reuse_tile: the reused cell is recorded for undo
_reuse_tile_Recorded(st, mults, letter) ==
    IF get_score(<<letter>>).raised # NoError
    THEN [st EXCEPT !.raised = get_score(<<letter>>).raised]
    ELSE [st EXCEPT !.score = @ + get_score(<<letter>>).value,
                    !.last_play = Append(@, <<st.row, st.col>>)]

\* A faulty _reuse_tile: the multiplier of the reused cell is applied again
_reuse_tile_Multiplied(st, mults, letter) ==
    IF get_score(<<letter>>).raised # NoError
    THEN [st EXCEPT !.raised = get_score(<<letter>>).raised]
    ELSE _add_letter(st, get_score(<<letter>>), get_multiplier(mults, st.row, st.col))

\* The branch of the loop body for a cell that already holds the letter
_reuse_tile(st, mults, letter) ==
    IF get_score(<<letter>>).raised # NoError
    THEN [st EXCEPT !.raised = get_score(<<letter>>).raised]
    ELSE [st EXCEPT !.score = @ + get_score(<<letter>>).value]

\* The center cell of the first-play rule
board_center_row(b) == Len(b) \div 2

board_center_col(b) == Len(b[1]) \div 2

\* play_through_center, set on a first play at the center cell
_mark_center(st, is_first_play) ==
    IF /\ is_first_play
       /\ st.row = board_center_row(st.board)
       /\ st.col = board_center_col(st.board)
    THEN [st EXCEPT !.play_through_center = TRUE]
    ELSE st

\* touching_word, set on a later play at a cell that touches a tile
_mark_touching(st, direction, is_first_play) ==
    IF /\ ~st.touching_word
       /\ ~is_first_play
       /\ _is_touching_word(st.board, st.last_play, st.row, st.col, direction)
    THEN [st EXCEPT !.touching_word = TRUE]
    ELSE st

\* The three cases of a cell on the grid: empty, same letter, other letter
_set_tile(st, mults, letter, direction) ==
    IF Cell(st.board, st.row, st.col) = None
    THEN _place_tile(st, mults, letter, direction)
    ELSE IF Cell(st.board, st.row, st.col) = letter
    THEN _reuse_tile(st, mults, letter)
    ELSE [st EXCEPT !.valid_play = FALSE]

\* The step to the next cell
_advance(st, direction) ==
    IF direction = DOWN THEN [st EXCEPT !.row = @ + 1] ELSE [st EXCEPT !.col = @ + 1]

\* The end of an iteration: the step and total_multiplier *= word_multiplier
_end_iteration(st, direction) ==
    IF st.raised # NoError THEN st
    ELSE [_advance(st, direction) EXCEPT !.total_multiplier = @ * st.word_multiplier]

\* One iteration of `for letter in word'
_set_letter(st, mults, letter, direction, is_first_play) ==
    IF _is_valid_coord(st.board, st.row, st.col)
    THEN _end_iteration(
             _set_tile(_mark_touching(_mark_center([st EXCEPT !.word_multiplier = 1],
                                                   is_first_play),
                                      direction, is_first_play),
                       mults, letter, direction),
             direction)
    ELSE _end_iteration([st EXCEPT !.word_multiplier = 1, !.valid_play = FALSE],
                        direction)

RECURSIVE _set_word_loop(_, _, _, _, _, _)
_set_word_loop(st, mults, word, i, direction, is_first_play) ==
    IF i > Len(word) \/ st.raised # NoError THEN st
    ELSE _set_word_loop(_set_letter(st, mults, word[i], direction, is_first_play),
                        mults, word, i + 1, direction, is_first_play)

\* The verdict at the end of set_word
_all_valid(valid_play, is_first_play, play_through_center, touching_word) ==
    /\ valid_play
    /\ ~(is_first_play /\ ~play_through_center)
    /\ ~(~is_first_play /\ ~touching_word)

\* The locals of set_word before the loop
_set_word_start(b, row, col) ==
    [board |-> b, last_play |-> << >>, row |-> row, col |-> col,
     valid_play |-> TRUE, play_through_center |-> FALSE,
     touching_word |-> FALSE, score |-> 0, cross_scores |-> 0,
     total_multiplier |-> 1, word_multiplier |-> 1, raised |-> NoError]

\* What set_word leaves and returns after the loop
_set_word_end(st, is_first_play) ==
    [board |-> st.board, last_play |-> st.last_play, raised |-> st.raised,
     total_score |-> st.score * st.total_multiplier + st.cross_scores,
     all_valid |-> _all_valid(st.valid_play, is_first_play,
                              st.play_through_center, st.touching_word)]

\* [board, last_play, raised, total_score, all_valid]: the board and the undo
\* record after the call, the exception it raised if any, and what it returns
set_word(b, mults, word_, row, col, direction) ==
    _set_word_end(_set_word_loop(_set_word_start(b, row, col), mults, upper(word_),
                                 1, direction, is_empty(b)),
                  is_empty(b))

\* ------------------------------------------------------------ inputs
\* Custom multiplier layouts given to Board(board_multipliers=...)
LAYOUT_3X3 ==
    << << <<"3","W">>, <<"2","L">>, <<"1","L">> >>,
       << <<"2","L">>, <<"2","W">>, <<"3","L">> >>,
       << <<"1","L">>, <<"3","L">>, <<"3","W">> >> >>

LAYOUT_3X4 ==
    << << <<"3","W">>, <<"1","L">>, <<"2","L">>, <<"3","W">> >>,
       << <<"2","L">>, <<"3","L">>, <<"2","W">>, <<"1","L">> >>,
       << <<"1","L">>, <<"2","W">>, <<"3","L">>, <<"2","L">> >> >>

Layouts == {NoLayout, LAYOUT_3X3, LAYOUT_3X4}

\* The words played on a custom layout
Words == { <<"A">>, <<"b", "A">>, <<"A", "B", "A">> }

Directions == {DOWN, RIGHT}

\* The start coordinates tried on a custom layout: every cell and one step off
\* the top and the left (a word that starts on the grid leaves it at the bottom
\* or the right)
StartRows(b) == -1 .. Len(b) - 1
StartCols(b) == -1 .. Len(b[1]) - 1

Play(word, row, col, direction) ==
    [op |-> "play_word", word |-> word, row |-> row, col |-> col,
     direction |-> direction]

\* The plays tried on the default layout: those of the script at the end of
\* dictionary.py, and an eight-letter word from the left edge and from the center
ScriptPlays ==
    { Play(<<"B","R","O","O","K">>, 7, 3, RIGHT),
      Play(<<"J","A","R">>, 5, 4, DOWN),
      Play(<<"Z","A","S">>, 5, 8, DOWN),
      Play(<<"V","U","G">>, 5, 2, RIGHT),
      Play(<<"F","A","R">>, 4, 3, RIGHT),
      Play(<<"B","R","O">>, 8, 5, RIGHT),
      Play(<<"C","A","R">>, 2, 2, RIGHT),
      Play(<<"B","R","O","O","K","L","E","T">>, 7, 0, RIGHT),
      Play(<<"B","R","O","O","K","L","E","T">>, 7, 7, RIGHT),
      Play(<<"T","O">>, 7, 14, DOWN) }

Plays(b, mults) ==
    IF mults = SCRABBLE_BOARD_MULTIPLIERS
    THEN ScriptPlays
    ELSE { Play(word, row, col, direction) :
             word \in Words, row \in StartRows(b), col \in StartCols(b),
             direction \in Directions }

\* ------------------------------------------------------------ TrieNode, Trie
\* A Trie is the tree under Trie.root.  A node is named by the path of
\* characters from the root to it (the root is << >>), and the tree is the
\* function from the paths of its nodes to their fields: children holds the keys
\* of the node's dict in insertion order, which is the order a `for char in
\* node.children' loop takes them in.
TrieNode == [children |-> << >>, defn |-> "", end |-> FALSE]

\* Trie()
Trie == (<< >> :> TrieNode)

\* char in node.children
HasChild(t, node, char) ==
    \E k \in 1..Len(t[node].children) : t[node].children[k] = char

\* A faulty _add_child: node.children[char] = TrieNode() also when char is
\* in node.children
_add_child_Always(t, node, char) ==
    (Append(node, char) :> TrieNode) @@
    [t EXCEPT ![node].children = IF HasChild(t, node, char) THEN @ ELSE Append(@, char)]

\* if char not in node.children: node.children[char] = TrieNode()
_add_child(t, node, char) ==
    IF HasChild(t, node, char) THEN t
    ELSE (Append(node, char) :> TrieNode) @@
         [t EXCEPT ![node].children = Append(@, char)]

RECURSIVE _insert_loop(_, _, _, _)
_insert_loop(t, word, i, defn) ==
    IF i > Len(word)
    THEN [t EXCEPT ![word].defn = defn, ![word].end = TRUE]
    ELSE _insert_loop(_add_child(t, SubSeq(word, 1, i - 1), word[i]), word, i + 1, defn)

\* A faulty insert: a word that is stored already keeps its definition
insert_KeepsFirstDefn(t, word, defn) ==
    _insert_loop(t, word, 1,
                 IF word \in DOMAIN t /\ t[word].end THEN t[word].defn ELSE defn)

\* Trie.insert(word, defn)
insert(t, word, defn) == _insert_loop(t, word, 1, defn)

\* The loop `for char in word' of search, get_defn and auto_complete from node:
\* TRUE when every character is found, and then the node reached is node \o word
RECURSIVE _follow(_, _, _, _)
_follow(t, node, word, i) ==
    IF i > Len(word) THEN TRUE
    ELSE IF HasChild(t, node \o SubSeq(word, 1, i - 1), word[i])
    THEN _follow(t, node, word, i + 1)
    ELSE FALSE

\* Trie.search(word)
search(t, word) == IF _follow(t, << >>, word, 1) THEN t[word].end ELSE FALSE

\* What a Python function returns where it returns either False or a string
PyFalse == [type |-> "bool", value |-> "False"]
PyStr(string) == [type |-> "str", value |-> string]

\* Trie.get_defn(word)
get_defn(t, word) == IF _follow(t, << >>, word, 1) THEN PyStr(t[word].defn) ELSE PyFalse

\* Trie.has_prefix(prefix): the loop from its i-th character, at node
RECURSIVE _has_prefix_loop(_, _, _, _)
_has_prefix_loop(t, prefix, i, node) ==
    IF i > Len(prefix) THEN FALSE
    ELSE IF SubSeq(prefix, 1, i) = prefix THEN TRUE
    ELSE IF HasChild(t, node, prefix[i])
    THEN _has_prefix_loop(t, prefix, i + 1, Append(node, prefix[i]))
    ELSE FALSE

has_prefix(t, prefix) == _has_prefix_loop(t, prefix, 1, << >>)

\* The i-th key of node.children
_child_char(t, node, i) == t[node].children[i]

\* A faulty _append_if_end: word_new is appended whether it ends a word or not
_append_if_end_Always(t, child, word_new, word_list) == Append(word_list, word_new)

\* word_list after `if node.children[char].end: word_list.append(word_new)'
_append_if_end(t, child, word_new, word_list) ==
    IF t[child].end THEN Append(word_list, word_new) ELSE word_list

\* Trie.walk_trie(node, word, word_list): the word_list it leaves
RECURSIVE walk_trie(_, _, _, _)
RECURSIVE _walk_trie_loop(_, _, _, _, _)
_walk_trie_loop(t, node, word, i, word_list) ==
    IF i > Len(t[node].children) THEN word_list
    ELSE _walk_trie_loop(t, node, word, i + 1,
             walk_trie(t, Append(node, _child_char(t, node, i)),
                       Append(word, _child_char(t, node, i)),
                       _append_if_end(t, Append(node, _child_char(t, node, i)),
                                      Append(word, _child_char(t, node, i)),
                                      word_list)))

walk_trie(t, node, word, word_list) == _walk_trie_loop(t, node, word, 1, word_list)

\* A faulty _append_if_end_and_length: the length of word_new is not compared
_append_if_end_AnyLength(t, child, word_new, word_list, length) ==
    IF t[child].end THEN Append(word_list, word_new) ELSE word_list

\* word_list after the first `if' of the loop of walk_trie_fixed_length
_append_if_end_and_length(t, child, word_new, word_list, length) ==
    IF t[child].end /\ Len(word_new) = length
    THEN Append(word_list, word_new)
    ELSE word_list

\* Trie.walk_trie_fixed_length(node, word, word_list, length)
RECURSIVE walk_trie_fixed_length(_, _, _, _, _)
RECURSIVE _walk_fixed_loop(_, _, _, _, _, _)
_walk_fixed_loop(t, node, word, i, word_list, length) ==
    IF i > Len(t[node].children) THEN word_list
    ELSE IF Len(word) + 1 <= length
    THEN _walk_fixed_loop(t, node, word, i + 1,
             walk_trie_fixed_length(t, Append(node, _child_char(t, node, i)),
                 Append(word, _child_char(t, node, i)),
                 _append_if_end_and_length(t, Append(node, _child_char(t, node, i)),
                     Append(word, _child_char(t, node, i)), word_list, length),
                 length),
             length)
    ELSE _walk_fixed_loop(t, node, word, i + 1,
             _append_if_end_and_length(t, Append(node, _child_char(t, node, i)),
                 Append(word, _child_char(t, node, i)), word_list, length),
             length)

walk_trie_fixed_length(t, node, word, word_list, length) ==
    _walk_fixed_loop(t, node, word, 1, word_list, length)

\* The end of auto_complete, at the node reached by partial_word
_auto_complete_from(t, node, partial_word) ==
    walk_trie(t, node, partial_word,
              IF t[node].end THEN <<partial_word>> ELSE << >>)

\* Trie.auto_complete(partial_word, node_start); node_start is a node (the
\* root when the argument is left out)
auto_complete(t, partial_word, node_start) ==
    IF _follow(t, node_start, partial_word, 1)
    THEN _auto_complete_from(t, node_start \o partial_word, partial_word)
    ELSE << >>

\* ------------------------------------------------------------ Trie.contains_partial
\* A call of contains_partial(token) is taken step by step, so that the calls
\* of two readers can interleave.  cp is the state of one call together with
\* the module-level flag: [stack, word_list, RETRACE_WORD].  stack holds the
\* frames of the recursive _contains_partial, the innermost last; a frame is
\* [node, prefix, i]: _node at the head of its loop, _prefix, and the index in
\* _node.children of the character its loop takes next.  The call has returned
\* when the stack is empty.
_cp_top(cp) == cp.stack[Len(cp.stack)]

_cp_set_top(cp, frame) == [cp.stack EXCEPT ![Len(cp.stack)] = frame]

\* string[-n:]
_tail(string, n) ==
    IF n = 0 \/ n >= Len(string) THEN string
    ELSE SubSeq(string, Len(string) - n + 1, Len(string))

\* _prefix after `if RETRACE_WORD: _prefix = _prefix[:-1]' and `_prefix += char'
_cp_prefix(cp, char) ==
    IF cp.RETRACE_WORD
    THEN Append(SubSeq(_cp_top(cp).prefix, 1, Len(_cp_top(cp).prefix) - 1), char)
    ELSE Append(_cp_top(cp).prefix, char)

\* One iteration of the loop of the innermost frame, which takes char and has
\* made prefix of it: the token is found (auto_complete from the root, break),
\* or the child has children (the recursive call is entered), or the child is
\* the end of a word (RETRACE_WORD is set)
_cp_iterate(t, token, cp, char, prefix) ==
    IF _tail(prefix, Len(token)) = token
    THEN [stack |-> _cp_set_top(cp, [node |-> _cp_top(cp).node, prefix |-> prefix,
                        i |-> Len(t[_cp_top(cp).node].children) + 1]),
          word_list |-> cp.word_list \o auto_complete(t, prefix, << >>),
          RETRACE_WORD |-> FALSE]
    ELSE IF Len(t[Append(_cp_top(cp).node, char)].children) # 0
    THEN [stack |-> Append(_cp_set_top(cp, [_cp_top(cp) EXCEPT !.prefix = prefix]),
                           [node |-> Append(_cp_top(cp).node, char),
                            prefix |-> prefix, i |-> 1]),
          word_list |-> cp.word_list,
          RETRACE_WORD |-> FALSE]
    ELSE [stack |-> _cp_set_top(cp, [_cp_top(cp) EXCEPT !.prefix = prefix, !.i = @ + 1]),
          word_list |-> cp.word_list,
          RETRACE_WORD |-> TRUE]

\* The innermost frame returns: the call is over, or the frame below goes on
\* after its recursive call (`if len(_prefix) == 1: RETRACE_WORD = True') and
\* to the next character of its loop
_cp_return(cp) ==
    IF Len(cp.stack) = 1
    THEN [cp EXCEPT !.stack = << >>]
    ELSE [stack |-> Append(SubSeq(cp.stack, 1, Len(cp.stack) - 2),
                           [cp.stack[Len(cp.stack) - 1] EXCEPT !.i = @ + 1]),
          word_list |-> cp.word_list,
          RETRACE_WORD |-> IF Len(cp.stack[Len(cp.stack) - 1].prefix) = 1
                           THEN TRUE ELSE cp.RETRACE_WORD]

\* One step of a call that has not returned
_cp_step(t, token, cp) ==
    IF _cp_top(cp).i > Len(t[_cp_top(cp).node].children)
    THEN _cp_return(cp)
    ELSE _cp_iterate(t, token, cp, _child_char(t, _cp_top(cp).node, _cp_top(cp).i),
                     _cp_prefix(cp, _child_char(t, _cp_top(cp).node, _cp_top(cp).i)))

\* The call as it is entered: _contains_partial(token, self.root, "", [])
_cp_start(flag) ==
    [stack |-> << [node |-> << >>, prefix |-> << >>, i |-> 1] >>,
     word_list |-> << >>, RETRACE_WORD |-> flag]

RECURSIVE _cp_run(_, _, _)
_cp_run(t, token, cp) ==
    IF cp.stack = << >> THEN cp ELSE _cp_run(t, token, _cp_step(t, token, cp))

\* Trie.contains_partial(token) run without interruption when RETRACE_WORD is
\* flag: [word_list, RETRACE_WORD], the list returned and the flag as it is left
contains_partial(t, token, flag) == _cp_run(t, token, _cp_start(flag))

\* ------------------------------------------------------------ Dictionary
\* limit is None (NoLimit), or a number n, written <<n>>
NoLimit == << >>

\* word[:n]; a negative n counts from the end of the word
_slice_to(word, n) ==
    IF n >= 0
    THEN SubSeq(word, 1, IF n < Len(word) THEN n ELSE Len(word))
    ELSE SubSeq(word, 1, IF Len(word) + n > 0 THEN Len(word) + n ELSE 0)

\* The word build_trie inserts for word: word, or word[:limit]
_limited(word, limit) == IF limit = NoLimit THEN word ELSE _slice_to(word, limit[1])

\* Trie.build_trie(words, limit): the words inserted in list order
RECURSIVE _build_trie_loop(_, _, _, _)
_build_trie_loop(t, words, limit, i) ==
    IF i > Len(words) THEN t
    ELSE _build_trie_loop(insert(t, _limited(words[i], limit), ""), words, limit, i + 1)

build_trie(t, words, limit) == _build_trie_loop(t, words, limit, 1)

\* Trie.build_trie_defs(words, defs)
RECURSIVE _build_trie_defs_loop(_, _, _, _)
_build_trie_defs_loop(t, words, defs, index) ==
    IF index > Len(words) THEN t
    ELSE _build_trie_defs_loop(insert(t, words[index], defs[index]), words, defs, index + 1)

build_trie_defs(t, words, defs) == _build_trie_defs_loop(t, words, defs, 1)

\* Dictionary.is_word(word)
is_word(t, word) == search(t, upper(word))

\* Dictionary.get_def(word)
get_def(t, word) == get_defn(t, upper(word))

\* Dictionary.has_words_starting_with(root)
has_words_starting_with(t, prefix) == has_prefix(t, prefix)

\* Dictionary.get_words_starting_with(root)
get_words_starting_with(t, prefix) == auto_complete(t, prefix, << >>)

\* Dictionary.get_words_containing(token): [word_list, RETRACE_WORD]
get_words_containing(t, token, flag) == contains_partial(t, token, flag)

\* Dictionary.get_x_letter_words(length)
get_x_letter_words(t, length) == walk_trie_fixed_length(t, << >>, << >>, << >>, length)

\* ------------------------------------------------------------ Dictionary: anagrams
\* set(list)
PySet(list) == { list[i] : i \in 1..Len(list) }

\* The lists list(s) can be for a set s: its elements in any order
PyList(s) ==
    { list \in [1..Cardinality(s) -> s] :
        \A i, j \in 1..Cardinality(s) : list[i] = list[j] => i = j }

\* _word[0:index] + _word[index + 1:], index counted from 1
_remove_at(word, index) ==
    SubSeq(word, 1, index - 1) \o SubSeq(word, index + 1, Len(word))

_prepend_all(char, list) == [k \in 1..Len(list) |-> <<char>> \o list[k]]

\* _find_permutations(word): list(itertools.permutations(word)), one entry for
\* every order of the positions of word, in the order itertools gives them
RECURSIVE _find_permutations(_)
RECURSIVE _permutations_from(_, _)
_permutations_from(word, i) ==
    IF i > Len(word) THEN << >>
    ELSE _prepend_all(word[i], _find_permutations(_remove_at(word, i)))
         \o _permutations_from(word, i + 1)

_find_permutations(word) ==
    IF Len(word) = 0 THEN << << >> >> ELSE _permutations_from(word, 1)

\* The loop of find_anagrams: word_list after the tokens from the i-th on
RECURSIVE _find_anagrams_loop(_, _, _, _)
_find_anagrams_loop(t, permute_list, i, word_list) ==
    IF i > Len(permute_list) THEN word_list
    ELSE _find_anagrams_loop(t, permute_list, i + 1,
             IF search(t, permute_list[i]) THEN Append(word_list, permute_list[i])
             ELSE word_list)

\* A faulty find_anagrams: word_list is returned as it is
find_anagrams_KeepsDuplicates(t, word) ==
    { _find_anagrams_loop(t, _find_permutations(word), 1, << >>) }

\* Dictionary.find_anagrams(word): the lists it can return (the order of
\* list(set(word_list)) is the iteration order of a set of strings, which
\* differs from run to run)
find_anagrams(t, word) ==
    PyList(PySet(_find_anagrams_loop(t, _find_permutations(word), 1, << >>)))

\* ord(c) of the characters used
ord(char) ==
    IF char \in DOMAIN LOWER_TO_UPPER THEN 97 + LETTER_DICTIONARY[LOWER_TO_UPPER[char]]
    ELSE IF char \in DOMAIN DIGITS THEN 48 + DIGITS[char]
    ELSE IF char = BLANK_TILE_CHAR THEN 63
    ELSE 65 + LETTER_DICTIONARY[char]

\* str.lower()
lower_char(char) ==
    IF \E l \in DOMAIN LOWER_TO_UPPER : LOWER_TO_UPPER[l] = char
    THEN CHOOSE l \in DOMAIN LOWER_TO_UPPER : LOWER_TO_UPPER[l] = char
    ELSE char

lower(string) == [i \in 1..Len(string) |-> lower_char(string[i])]

\* a < b for two strings, from their i-th characters on
RECURSIVE _str_lt(_, _, _)
_str_lt(a, b, i) ==
    IF i > Len(a) THEN i <= Len(b)
    ELSE IF i > Len(b) THEN FALSE
    ELSE IF ord(a[i]) # ord(b[i]) THEN ord(a[i]) < ord(b[i])
    ELSE _str_lt(a, b, i + 1)

\* _custom_key(a) <= _custom_key(b), the key being (-len(_str), _str.lower())
_custom_key_le(a, b) ==
    \/ Len(a) > Len(b)
    \/ Len(a) = Len(b) /\ ~_str_lt(lower(b), lower(a), 1)

\* The inner _find_subanagrams(_word, _word_list): the _word_list it leaves,
\* the loop over the letters to leave out being at index
RECURSIVE _find_subanagrams(_, _, _)
RECURSIVE _find_subanagrams_loop(_, _, _, _)
_find_subanagrams_loop(t, _word, index, _word_list) ==
    IF index > Len(_word) THEN _word_list
    ELSE _find_subanagrams_loop(t, _word, index + 1,
             _find_subanagrams(t, _remove_at(_word, index), _word_list))

_find_subanagrams(t, _word, _word_list) ==
    IF Len(_word) > 1
    THEN _find_subanagrams_loop(t, _word, 1,
             _word_list \o (CHOOSE list \in find_anagrams(t, _word) : TRUE))
    ELSE _word_list \o (CHOOSE list \in find_anagrams(t, _word) : TRUE)

\* The sorted lists of the words of word_set: word_list.sort(), or
\* sorted(word_list, key=_custom_key), which keeps words of equal keys in the
\* order list(set(word_list)) had them in
_sorted(word_set, sort_by_length) ==
    { list \in PyList(word_set) :
        \A i, j \in 1..Len(list) :
            i < j => IF sort_by_length THEN _custom_key_le(list[i], list[j])
                     ELSE _str_lt(list[i], list[j], 1) }

\* Dictionary.find_subanagrams(word, sort_by_length): the lists it can return
find_subanagrams(t, word, sort_by_length) ==
    _sorted(PySet(_find_subanagrams(t, word, << >>)), sort_by_length)

\* ------------------------------------------------------------ inputs of the dictionary
\* The words a dictionary is built from
WordPool ==
    { <<"A">>, <<"A", "B">>, <<"B", "A">>, <<"A", "C">>, <<"a", "b">>,
      <<"A", "B", "C">> }

\* The definitions given with them; "" is the definition of insert(word)
Definitions == {"", "noun"}

\* The strings asked for
QueryStrings ==
    WordPool \cup { << >>, <<"B">>, <<"C">>, <<"a">>, <<"B", "C">>, <<"A", "B", "A">> }

\* The lengths asked for
QueryLengths == 0 .. 4

\* The word lists of the dictionaries that the readers read
WordLists == UNION { [1..n -> WordPool] : n \in 1..MaxWords }

\* The tokens the readers search for
Tokens == { <<"A">>, <<"B">>, <<"C">> }

Readers == {1, 2}

\* ------------------------------------------------------------ _fill_bag
\* letter_distribution is None
NoDistribution == << >>

\* list(letter * dist)
_letters_to_add(letter, dist) == [k \in 1..dist |-> letter]

\* The loop of _fill_bag from the i-th entry of letter_distribution: the list
\* that is extended, as the loop leaves it
RECURSIVE _fill_bag_loop(_, _, _)
_fill_bag_loop(letter_distribution, i, list) ==
    IF i > Len(letter_distribution) THEN list
    ELSE _fill_bag_loop(letter_distribution, i + 1,
             list \o _letters_to_add(letter_distribution[i][1],
                          float(SubSeq(letter_distribution[i], 2,
                                       Len(letter_distribution[i])))))

\* _fill_bag(letter_distribution) when LETTER_LIST is bag: LETTER_LIST as it
\* is left, and what is returned
_fill_bag(bag, letter_distribution) ==
    IF letter_distribution = NoDistribution
    THEN [LETTER_LIST |-> _fill_bag_loop(LETTER_DISTRIBUTION, 1, bag), ret |-> None]
    ELSE [LETTER_LIST |-> bag, ret |-> _fill_bag_loop(letter_distribution, 1, << >>)]

\* ------------------------------------------------------------ inputs of the word queries
\* The words of the lists build_trie is given; one is the empty word
AnagramPool ==
    { << >>, <<"A">>, <<"B">>, <<"A", "B">>, <<"B", "A">>, <<"A", "A">>,
      <<"A", "B", "A">> }

AnagramLists == UNION { [1..n -> AnagramPool] : n \in 1..MaxWords }

\* The limits build_trie is given
Limits == { NoLimit, <<0>>, <<1>>, <<2>>, <<-1>> }

\* The letters anagrams are asked for
AnagramQueries ==
    { << >>, <<"A">>, <<"A", "B">>, <<"B", "A">>, <<"A", "A">>, <<"A", "A", "B">>,
      <<"A", "B", "A">>, <<"C">> }

\* The words scored: every string of up to MaxLetters of these characters
ScoreChars == {"A", "Q", BLANK_TILE_CHAR, "a", "1"}

ScoreWords == UNION { [1..n -> ScoreChars] : n \in 0..MaxLetters }

\* The scoring tables given: none, one for the whole alphabet, one that is too short
ScoringTables == { NoScoring, [k \in 1..27 |-> k], <<2, 5>> }

\* The letter distributions a Board is given
Distributions == { NoDistribution, << <<"A","2">>, <<"B","1">> >> }

\* ------------------------------------------------------------ state
VARIABLES
    board,        \* Board.board: rows of cells, each None or a letter
    multipliers,  \* Board.multipliers
    last_play,    \* Board.last_play: the coordinates written by the last play
    call,         \* the last call made on the Board; its arguments are kept
                  \* when the caller stops after it
    ret,          \* what the last call returned: << >> (nothing) or <<value>>
    raised,       \* the exception the last call raised, or NoError
    before,       \* Board.board when the last call was made
    prev,         \* the call made before the last one, how it ended and whether
                  \* it changed the grid
    calls,        \* the number of calls made so far
    faults,       \* the number of calls that raised so far
    stopped,      \* the caller makes no further call
    root,         \* Trie.root of the Dictionary: the tree of TrieNodes
    inserted,     \* the [word, defn] pairs inserted so far, in order
    RETRACE_WORD, \* the module-level flag of contains_partial
    query,        \* the last query made on the Dictionary and what it returned
    readers,      \* the contains_partial call each concurrent reader is in
    LETTER_LIST   \* the module-level tile bag

vars == << board, multipliers, last_play, call, ret, raised, before, prev, calls,
           faults, stopped, root, inserted, RETRACE_WORD, query, readers, LETTER_LIST >>

boardVars == << board, multipliers, last_play, call, ret, raised, before, prev, calls,
                faults, stopped >>

trieVars == << root, inserted, RETRACE_WORD, query, readers >>

NoCall == [op |-> "__init__", word |-> << >>, row |-> 0, col |-> 0, direction |-> None]

\* No query has been made on the Dictionary
NoQuery == [op |-> "", arg |-> << >>, ret |-> << >>]

\* The Dictionary holds no word and nobody reads it
TrieUnbuilt ==
    /\ root = Trie
    /\ inserted = << >>
    /\ RETRACE_WORD = FALSE
    /\ query = NoQuery
    /\ readers = << >>

\* No Board has been constructed
BoardUnbuilt ==
    /\ board = << >>
    /\ multipliers = << >>
    /\ last_play = << >>
    /\ call = [NoCall EXCEPT !.op = ""]
    /\ ret = << >>
    /\ raised = NoError
    /\ before = << >>
    /\ prev = [op |-> "", ret |-> << >>, raised |-> NoError, changed |-> FALSE]
    /\ calls = 0
    /\ faults = 0
    /\ stopped = FALSE

\* Board(game_dct, board_multipliers=layout)
Init ==
    \E layout \in Layouts :
        /\ TrieUnbuilt
        /\ LETTER_LIST = _fill_bag(<< >>, NoDistribution).LETTER_LIST
        /\ board = _set_board(NoBoard, layout)
        /\ multipliers = _set_board_multipliers(layout)
        /\ last_play = << >>
        /\ call = NoCall
        /\ ret = << >>
        /\ raised = NoError
        /\ before = _set_board(NoBoard, layout)
        /\ prev = [op |-> "", ret |-> << >>, raised |-> NoError, changed |-> FALSE]
        /\ calls = 0
        /\ faults = 0
        /\ stopped = FALSE

\* The caller makes another call
CanCall == ~stopped /\ calls < MaxCalls

\* The caller's record of the call it makes; it keeps the arguments of the call
\* after which it stops
Called(record) ==
    \E last \in BOOLEAN :
        /\ calls' = calls + 1
        /\ stopped' = last
        /\ call' = IF last THEN record ELSE [NoCall EXCEPT !.op = record.op]
        /\ prev' = [op |-> call.op, ret |-> ret, raised |-> raised,
                     changed |-> board # before]
        /\ before' = board

\* A faulty _play_word_end: a rejected play clears its own tiles and puts the
\* undo record of the play before it back
_play_word_end_KeepsUndoRecord(sw) ==
    /\ raised' = sw.raised
    /\ faults' = IF sw.raised # NoError THEN faults + 1 ELSE faults
    /\ IF sw.raised # NoError
       THEN /\ board' = sw.board
            /\ last_play' = sw.last_play
            /\ ret' = << >>
       ELSE IF sw.all_valid
       THEN /\ board' = sw.board
            /\ last_play' = sw.last_play
            /\ ret' = <<sw.total_score>>
       ELSE /\ board' = ClearCells(sw.board, sw.last_play)
            /\ last_play' = last_play
            /\ ret' = <<INVALID_PLAY>>
    /\ UNCHANGED multipliers

\* play_word after its set_word gave sw: an exception leaves the Board as
\* set_word left it, a valid play returns the score, an invalid one is undone
_play_word_end(sw) ==
    /\ raised' = sw.raised
    /\ faults' = IF sw.raised # NoError THEN faults + 1 ELSE faults
    /\ IF sw.raised # NoError
       THEN /\ board' = sw.board
            /\ last_play' = sw.last_play
            /\ ret' = << >>
       ELSE IF sw.all_valid
       THEN /\ board' = sw.board
            /\ last_play' = sw.last_play
            /\ ret' = <<sw.total_score>>
       ELSE /\ board' = ClearCells(sw.board, sw.last_play)
            /\ last_play' = << >>
            /\ ret' = <<INVALID_PLAY>>
    /\ UNCHANGED multipliers

\* Board.play_word(word, row, col, direction)
play_word(word, row, col, direction) ==
    _play_word_end(set_word(board, multipliers, word, row, col, direction))

\* A faulty undo_play: last_play is not cleared
undo_play_KeepsRecord ==
    /\ board' = ClearCells(board, last_play)
    /\ last_play' = last_play
    /\ ret' = << >>
    /\ raised' = NoError
    /\ UNCHANGED << multipliers, faults >>

\* Board.undo_play()
undo_play ==
    /\ board' = ClearCells(board, last_play)
    /\ last_play' = << >>
    /\ ret' = << >>
    /\ raised' = NoError
    /\ UNCHANGED << multipliers, faults >>

PlayWord ==
    /\ CanCall
    /\ \E p \in Plays(board, multipliers) :
           /\ play_word(p.word, p.row, p.col, p.direction)
           /\ Called(p)
    /\ UNCHANGED trieVars
    /\ UNCHANGED LETTER_LIST

UndoPlay ==
    /\ CanCall
    /\ undo_play
    /\ Called([NoCall EXCEPT !.op = "undo_play"])
    /\ UNCHANGED trieVars
    /\ UNCHANGED LETTER_LIST

Next == PlayWord \/ UndoPlay

Spec == Init /\ [][Next]_vars

\* ------------------------------------------------------------ Board.__init__
\* The grids a Board is constructed with: empty or holding tiles
GridShapes == { <<3, 3>>, <<3, 4>>, <<2, 3>> }

Grids == UNION { [1..shape[1] -> [1..shape[2] -> {None, "A"}]] : shape \in GridShapes }

InitConstruct == BoardUnbuilt /\ TrieUnbuilt /\ LETTER_LIST = << >>

\* Board.__init__(game_dct, board, board_multipliers, letter_dist)
__init__(given_board, board_multipliers, letter_dist) ==
    /\ board' = _set_board(given_board, board_multipliers)
    /\ multipliers' = _set_board_multipliers(board_multipliers)
    /\ LETTER_LIST' = _fill_bag(LETTER_LIST, letter_dist).LETTER_LIST
    /\ last_play' = << >>

Construct ==
    /\ call.op = ""
    /\ \E given_board \in Grids \cup {NoBoard}, layout \in Layouts,
          letter_dist \in Distributions :
           __init__(given_board, layout, letter_dist)
    /\ call' = NoCall
    /\ before' = board'
    /\ UNCHANGED << ret, raised, prev, calls, faults, stopped >>
    /\ UNCHANGED trieVars

SpecConstruct == InitConstruct /\ [][Construct]_vars

\* ------------------------------------------------------------ Dictionary: build and query
InitTrie == BoardUnbuilt /\ TrieUnbuilt /\ LETTER_LIST = << >>

\* The Dictionary is built word by word (Trie.build_trie, Trie.build_trie_defs)
Insert ==
    /\ query = NoQuery
    /\ Len(inserted) < MaxWords
    /\ \E word \in WordPool, defn \in Definitions :
           /\ root' = insert(root, word, defn)
           /\ inserted' = Append(inserted, [word |-> word, defn |-> defn])
    /\ UNCHANGED << RETRACE_WORD, query, readers, LETTER_LIST >>
    /\ UNCHANGED boardVars

\* The caller makes one query on the Dictionary it has built, or one
\* get_words_containing after another
CanQuery(op) == query = NoQuery \/ (op = "get_words_containing" /\ query.op = op)

\* A query that reads the trie and returns value
Queried(op, arg, value) ==
    /\ query' = [op |-> op, arg |-> arg, ret |-> value]
    /\ UNCHANGED << root, inserted, readers, LETTER_LIST >>
    /\ UNCHANGED boardVars

IsWord ==
    /\ CanQuery("is_word")
    /\ \E word \in QueryStrings : Queried("is_word", word, is_word(root, word))
    /\ UNCHANGED RETRACE_WORD

Search ==
    /\ CanQuery("search")
    /\ \E word \in QueryStrings : Queried("search", word, search(root, word))
    /\ UNCHANGED RETRACE_WORD

GetDef ==
    /\ CanQuery("get_def")
    /\ \E word \in QueryStrings : Queried("get_def", word, get_def(root, word))
    /\ UNCHANGED RETRACE_WORD

GetDefn ==
    /\ CanQuery("get_defn")
    /\ \E word \in QueryStrings : Queried("get_defn", word, get_defn(root, word))
    /\ UNCHANGED RETRACE_WORD

HasWordsStartingWith ==
    /\ CanQuery("has_words_starting_with")
    /\ \E prefix \in QueryStrings :
           Queried("has_words_starting_with", prefix, has_words_starting_with(root, prefix))
    /\ UNCHANGED RETRACE_WORD

GetWordsStartingWith ==
    /\ CanQuery("get_words_starting_with")
    /\ \E prefix \in QueryStrings :
           Queried("get_words_starting_with", prefix, get_words_starting_with(root, prefix))
    /\ UNCHANGED RETRACE_WORD

GetWordsContaining ==
    /\ CanQuery("get_words_containing")
    /\ \E token \in QueryStrings :
           /\ Queried("get_words_containing", token,
                      get_words_containing(root, token, RETRACE_WORD).word_list)
           /\ RETRACE_WORD' = get_words_containing(root, token, RETRACE_WORD).RETRACE_WORD

GetXLetterWords ==
    /\ CanQuery("get_x_letter_words")
    /\ \E length \in QueryLengths :
           Queried("get_x_letter_words", length, get_x_letter_words(root, length))
    /\ UNCHANGED RETRACE_WORD

NextTrie ==
    \/ Insert
    \/ IsWord
    \/ Search
    \/ GetDef
    \/ GetDefn
    \/ HasWordsStartingWith
    \/ GetWordsStartingWith
    \/ GetWordsContaining
    \/ GetXLetterWords

SpecTrie == InitTrie /\ [][NextTrie]_vars

\* ------------------------------------------------------------ Dictionary: two readers
\* A Dictionary built from a word list, and each reader at the start of a
\* call of get_words_containing
InitReaders ==
    /\ BoardUnbuilt
    /\ \E words \in WordLists :
           /\ root = build_trie(Trie, words, NoLimit)
           /\ inserted = [i \in 1..Len(words) |-> [word |-> words[i], defn |-> ""]]
    /\ RETRACE_WORD = FALSE
    /\ LETTER_LIST = _fill_bag(<< >>, NoDistribution).LETTER_LIST
    /\ query = NoQuery
    /\ readers \in [Readers -> { [token |-> token, stack |-> _cp_start(FALSE).stack,
                                   word_list |-> << >>] : token \in Tokens }]

\* Reader r takes the next step of its call: it reads and writes the shared
\* RETRACE_WORD
ReaderStep(r) ==
    /\ readers[r].stack # << >>
    /\ readers' = [readers EXCEPT ![r] =
           [token |-> @.token,
            stack |-> _cp_step(root, @.token, [stack |-> @.stack, word_list |-> @.word_list,
                                               RETRACE_WORD |-> RETRACE_WORD]).stack,
            word_list |-> _cp_step(root, @.token, [stack |-> @.stack,
                              word_list |-> @.word_list,
                              RETRACE_WORD |-> RETRACE_WORD]).word_list]]
    /\ RETRACE_WORD' = _cp_step(root, readers[r].token,
                                [stack |-> readers[r].stack,
                                 word_list |-> readers[r].word_list,
                                 RETRACE_WORD |-> RETRACE_WORD]).RETRACE_WORD
    /\ UNCHANGED << root, inserted, query, LETTER_LIST >>
    /\ UNCHANGED boardVars

Reader1 == ReaderStep(1)

Reader2 == ReaderStep(2)

NextReaders == Reader1 \/ Reader2

SpecReaders == InitReaders /\ [][NextReaders]_vars

\* ------------------------------------------------------------ Dictionary: words and scores
\* Trie.build_trie(words, limit) on the empty trie of a Dictionary
BuildTrie ==
    /\ query = NoQuery
    /\ inserted = << >>
    /\ \E words \in AnagramLists, limit \in Limits :
           /\ root' = build_trie(root, words, limit)
           /\ inserted' = [i \in 1..Len(words) |->
                              [word |-> _limited(words[i], limit), defn |-> ""]]
    /\ UNCHANGED << RETRACE_WORD, query, readers, LETTER_LIST >>
    /\ UNCHANGED boardVars

FindAnagrams ==
    /\ query = NoQuery
    /\ inserted # << >>
    /\ \E word \in AnagramQueries :
           \E list \in find_anagrams(root, word) : Queried("find_anagrams", word, list)
    /\ UNCHANGED RETRACE_WORD

FindSubanagrams ==
    /\ query = NoQuery
    /\ inserted # << >>
    /\ \E word \in AnagramQueries, sort_by_length \in BOOLEAN :
           \E list \in find_subanagrams(root, word, sort_by_length) :
               Queried("find_subanagrams",
                       [word |-> word, sort_by_length |-> sort_by_length], list)
    /\ UNCHANGED RETRACE_WORD

\* Dictionary.get_word_score is a static method: no Dictionary is needed
GetWordScore ==
    /\ query = NoQuery
    /\ inserted = << >>
    /\ \E word \in ScoreWords, letter_scoring \in ScoringTables :
           Queried("get_word_score", [word |-> word, letter_scoring |-> letter_scoring],
                   get_word_score(word, letter_scoring))
    /\ UNCHANGED RETRACE_WORD

NextWords == BuildTrie \/ FindAnagrams \/ FindSubanagrams \/ GetWordScore

SpecWords == InitTrie /\ [][NextWords]_vars

\* ------------------------------------------------------------ objects and the tile bag
\* One more object is constructed
CanConstruct ==
    Len(LETTER_LIST) < MaxObjects * Len(_fill_bag(<< >>, NoDistribution).LETTER_LIST)

\* Dictionary(dct_file_name, use_defs=False): the words of the file are
\* inserted into a new Trie, then _fill_bag() is called
NewDictionary ==
    /\ CanConstruct
    /\ \E words \in { list \in WordLists : Len(list) < MaxWords } :
           /\ root' = build_trie(Trie, words, NoLimit)
           /\ inserted' = [i \in 1..Len(words) |-> [word |-> words[i], defn |-> ""]]
    /\ LETTER_LIST' = _fill_bag(LETTER_LIST, NoDistribution).LETTER_LIST
    /\ query' = NoQuery
    /\ UNCHANGED << RETRACE_WORD, readers >>
    /\ UNCHANGED boardVars

\* Board(game_dct, board_multipliers=layout, letter_dist=letter_dist)
NewBoard ==
    /\ CanConstruct
    /\ \E layout \in Layouts, letter_dist \in Distributions :
           __init__(NoBoard, layout, letter_dist)
    /\ call' = NoCall
    /\ before' = board'
    /\ UNCHANGED << ret, raised, prev, calls, faults, stopped >>
    /\ UNCHANGED trieVars

NextObjects == NewDictionary \/ NewBoard

SpecObjects == InitConstruct /\ [][NextObjects]_vars

\* ============================================================ properties
\* What the claims speak of, stated on the caller's record of the last call:
\* the grid before it (before), its arguments (call, kept when the caller
\* stopped after it) and its outcome (ret, raised, board, last_play).

IsPlay == call.op = "play_word"
IsUndo == call.op = "undo_play"
Returned == IsPlay /\ raised = NoError
Rejected == Returned /\ ret = <<INVALID_PLAY>>
Accepted == Returned /\ ret # <<INVALID_PLAY>>
Observed == stopped /\ IsPlay

\* No call before the last one raised
CleanHistory == faults = (IF raised # NoError THEN 1 ELSE 0)

PrevRejected == prev.op = "play_word" /\ prev.raised = NoError /\ prev.ret = <<INVALID_PLAY>>
PrevAccepted == prev.op = "play_word" /\ prev.raised = NoError /\ prev.ret # <<INVALID_PLAY>>

\* The footprint of the observed play: the cell of its i-th letter
WordLen == Len(call.word)
FootRow(i) == IF call.direction = DOWN THEN call.row + i - 1 ELSE call.row
FootCol(i) == IF call.direction = DOWN THEN call.col ELSE call.col + i - 1
WordLetter(i) == upper_char(call.word[i])

OnGrid(r, c) == r \in 0 .. Len(before) - 1 /\ c \in 0 .. Len(before[1]) - 1

\* The tile at (r, c) before the call; None off the grid
TileBefore(r, c) == IF OnGrid(r, c) THEN before[r + 1][c + 1] ELSE None

AllOnGrid == \A i \in 1..WordLen : OnGrid(FootRow(i), FootCol(i))

CoversCenter ==
    \E i \in 1..WordLen :
        /\ FootRow(i) = Len(before) \div 2
        /\ FootCol(i) = Len(before[1]) \div 2

NoConflict ==
    \A i \in 1..WordLen : TileBefore(FootRow(i), FootCol(i)) \in {None, WordLetter(i)}

Conflict == ~NoConflict

\* A footprint cell overlaps or is orthogonally adjacent to a tile that was on
\* the board before the call
Touches ==
    \E i \in 1..WordLen :
        /\ OnGrid(FootRow(i), FootCol(i))
        /\ \/ TileBefore(FootRow(i), FootCol(i)) # None
           \/ TileBefore(FootRow(i) - 1, FootCol(i)) # None
           \/ TileBefore(FootRow(i) + 1, FootCol(i)) # None
           \/ TileBefore(FootRow(i), FootCol(i) - 1) # None
           \/ TileBefore(FootRow(i), FootCol(i) + 1) # None

\* The i-th letter is placed on a cell that was empty
NewlyPlaced(i) ==
    OnGrid(FootRow(i), FootCol(i)) /\ TileBefore(FootRow(i), FootCol(i)) = None

\* ------------------------------------------------------------ C1
\* C1: a play_word that returns INVALID_PLAY leaves the grid cell for cell as it
\* was before the call.
C1_RejectedPlayRestoresGrid == Rejected => board = before

\* A rejected play that had written a tile on an empty cell of a non-empty board
C1_Witness ==
    /\ Observed /\ Rejected
    /\ ~is_empty(before)
    /\ \E i \in 1..WordLen : NewlyPlaced(i)

\* ------------------------------------------------------------ C2
\* C2: on an empty board play_word is accepted if every letter lands on the
\* grid and one of them lands on the center cell, and is rejected otherwise.
C2_FirstPlayCenterRule ==
    (Observed /\ CleanHistory /\ is_empty(before)) =>
        /\ (AllOnGrid /\ CoversCenter) => Accepted
        /\ ~(AllOnGrid /\ CoversCenter) => Rejected

\* ------------------------------------------------------------ C3
\* C3: on a non-empty board play_word is accepted if and only if every letter
\* lands on the grid, no footprint cell holds a different letter, and a
\* footprint cell overlaps or is orthogonally adjacent to a tile that was on the
\* board before the call.
C3_LaterPlayRule ==
    (Observed /\ CleanHistory /\ ~is_empty(before)) =>
        (Accepted <=> (AllOnGrid /\ NoConflict /\ Touches))

\* ------------------------------------------------------------ C4
\* C4: play_word never changes a cell that was filled before the call, and a
\* play with a conflicting letter is rejected and leaves none of its tiles.
C4_ConflictRejectedNothingPersists ==
    /\ IsPlay =>
          \A r \in 1..Len(before) : \A c \in 1..Len(before[r]) :
              before[r][c] # None => board[r][c] = before[r][c]
    /\ (Observed /\ CleanHistory /\ Conflict) => (Rejected /\ board = before)

\* ------------------------------------------------------------ C5
\* C5: undo_play called directly after an accepted play_word restores the grid
\* to the grid before that play.
C5_UndoRestoresGrid ==
    [][(Accepted /\ call'.op = "undo_play") => board' = before]_vars

\* An undo directly after an accepted play that cleared the new tiles and left
\* the tiles that were there before
C5_Witness ==
    /\ IsUndo /\ PrevAccepted
    /\ board # before
    /\ ~is_empty(board)

\* ------------------------------------------------------------ C6
\* C6: a second undo_play in a row changes nothing: the grid is the same and
\* last_play is empty as after the first.
C6_UndoIdempotent ==
    [][(IsUndo /\ call'.op = "undo_play") =>
          (board' = board /\ last_play' = last_play /\ last_play' = << >>)]_vars

\* Two undo_play calls in a row, the first of which cleared tiles
C6_Witness ==
    /\ IsUndo /\ prev.op = "undo_play" /\ prev.changed
    /\ board = before /\ last_play = << >>

\* ------------------------------------------------------------ C7
\* C7: an undo_play that follows a rejected play_word does not change the grid.
C7_UndoAfterRejectedIsNoOp ==
    [][(Rejected /\ call'.op = "undo_play") => board' = board]_vars

\* An undo after a rejected play on a board that holds the tiles of an earlier
\* play
C7_Witness ==
    /\ IsUndo /\ PrevRejected
    /\ ~is_empty(board)
    /\ calls = 3

\* ------------------------------------------------------------ scoring, as the claims state it
\* The multiplier of cell (r, c): its magnitude and its kind
Mag(r, c) == DIGITS[multipliers[r + 1][c + 1][1]]
Kind(r, c) == multipliers[r + 1][c + 1][2]

PlainScore(letter) == LETTER_SCORING[LETTER_DICTIONARY[letter] + 1]

\* The sum over the first i letters of the word: the letter's score times the
\* letter multiplier of a cell it is newly placed on, its plain score otherwise
RECURSIVE LetterSum(_)
LetterSum(i) ==
    IF i = 0 THEN 0
    ELSE LetterSum(i - 1) +
         (IF NewlyPlaced(i) /\ Kind(FootRow(i), FootCol(i)) = LETTER_MULTIPLIER
          THEN PlainScore(WordLetter(i)) * Mag(FootRow(i), FootCol(i))
          ELSE PlainScore(WordLetter(i)))

\* The product of the word multipliers of the cells newly covered by the first i
\* letters
RECURSIVE WordProduct(_)
WordProduct(i) ==
    IF i = 0 THEN 1
    ELSE WordProduct(i - 1) *
         (IF NewlyPlaced(i) /\ Kind(FootRow(i), FootCol(i)) = WORD_MULTIPLIER
          THEN Mag(FootRow(i), FootCol(i))
          ELSE 1)

MainWordScore == LetterSum(WordLen) * WordProduct(WordLen)

\* The step of the perpendicular direction
PerpRow == IF call.direction = DOWN THEN 0 ELSE 1
PerpCol == IF call.direction = DOWN THEN 1 ELSE 0

\* The i-th letter is newly placed next to a tile in the perpendicular direction
HasPerpNeighbour(i) ==
    /\ NewlyPlaced(i)
    /\ \/ TileBefore(FootRow(i) - PerpRow, FootCol(i) - PerpCol) # None
       \/ TileBefore(FootRow(i) + PerpRow, FootCol(i) + PerpCol) # None

\* The plain scores of the contiguous tiles from (r, c) on in steps of (dr, dc)
RECURSIVE SideSum(_, _, _, _)
SideSum(r, c, dr, dc) ==
    IF TileBefore(r, c) = None THEN 0
    ELSE PlainScore(TileBefore(r, c)) + SideSum(r + dr, c + dc, dr, dc)

\* The cross-word score of the i-th letter
CrossWordScore(i) ==
    LET sides == SideSum(FootRow(i) - PerpRow, FootCol(i) - PerpCol, -PerpRow, -PerpCol)
                 + SideSum(FootRow(i) + PerpRow, FootCol(i) + PerpCol, PerpRow, PerpCol)
        own == PlainScore(WordLetter(i))
    IN  IF Kind(FootRow(i), FootCol(i)) = LETTER_MULTIPLIER
        THEN sides + own * Mag(FootRow(i), FootCol(i))
        ELSE (sides + own) * Mag(FootRow(i), FootCol(i))

RECURSIVE CrossSum(_)
CrossSum(i) ==
    IF i = 0 THEN 0
    ELSE CrossSum(i - 1) + (IF HasPerpNeighbour(i) THEN CrossWordScore(i) ELSE 0)

\* ------------------------------------------------------------ C8
\* C8: an accepted play with no perpendicular neighbours scores the letter sum
\* times the product of the word multipliers of the newly covered cells; on the
\* empty default board a word played RIGHT on the center row across the center
\* cell is accepted and scores twice the letter sum.
C8_MainWordScore ==
    (/\ Observed /\ CleanHistory /\ Accepted
     /\ \A i \in 1..WordLen : ~HasPerpNeighbour(i))
        => ret = <<MainWordScore>>

\* The instance of C8 on the empty default board
C8_CenterRowDoubles ==
    (/\ Observed
     /\ multipliers = SCRABBLE_BOARD_MULTIPLIERS /\ is_empty(before)
     /\ call.direction = RIGHT /\ call.row = 7
     /\ AllOnGrid /\ CoversCenter)
        => (Accepted /\ ret = <<2 * LetterSum(WordLen)>>)

\* ------------------------------------------------------------ C9
\* The multiplier grid with the multiplier of every cell that held a tile before
\* the call replaced by m
WithUsedMultipliers(m) ==
    [r \in 1..Len(multipliers) |->
        [c \in 1..Len(multipliers[r]) |->
            IF before[r][c] # None THEN m ELSE multipliers[r][c]]]

\* C9: the score of an accepted play does not depend on the multipliers of the
\* cells that already held a tile: whatever they are, the play scores the same.
C9_UsedMultipliersDoNotApply ==
    (Observed /\ Accepted) =>
        \A m \in {<<"1","L">>, <<"3","W">>} :
            ret = <<set_word(before, WithUsedMultipliers(m), call.word, call.row,
                             call.col, call.direction).total_score>>

\* An accepted play through a tile that lies on a word-multiplier cell and
\* through one on a letter-multiplier cell above 1
C9_Witness ==
    /\ Observed /\ Accepted
    /\ \E i \in 1..WordLen :
          /\ ~NewlyPlaced(i)
          /\ Kind(FootRow(i), FootCol(i)) = WORD_MULTIPLIER
    /\ \E i \in 1..WordLen :
          /\ ~NewlyPlaced(i)
          /\ Kind(FootRow(i), FootCol(i)) = LETTER_MULTIPLIER
          /\ Mag(FootRow(i), FootCol(i)) > 1
    /\ \E i \in 1..WordLen : NewlyPlaced(i)

\* ------------------------------------------------------------ C10
\* C10: the score of an accepted play is the main word's score plus, for each
\* newly placed letter with a tile next to it in the perpendicular direction,
\* the cross-word score of that letter, and nothing for the other letters.
C10_CrossWordScore ==
    (Observed /\ CleanHistory /\ Accepted) =>
        ret = <<MainWordScore + CrossSum(WordLen)>>

\* ------------------------------------------------------------ C11
\* C11: play_word returns normally, with a score or INVALID_PLAY, whatever the
\* word, the start coordinate and the direction: no call of play_word raises.
C11_PlayWordNeverRaises ==
    IsPlay => raised = NoError

\* ------------------------------------------------------------ C12
\* A Board has been constructed
Constructed == call.op = "__init__"

\* C12: every Board that exists has a grid and multipliers of the same
\* dimensions (a construction from grids of different dimensions fails).
C12_SameDimensions ==
    Constructed =>
        /\ Len(board) = Len(multipliers)
        /\ \A r \in 1..Len(board) : Len(board[r]) = Len(multipliers[r])

\* ------------------------------------------------------------ the stored words
\* The words inserted into the Dictionary
StoredWords == { inserted[i].word : i \in 1..Len(inserted) }

\* string is a stored word
IsStored(string) == string \in StoredWords

\* The definition word was last inserted with
RECURSIVE LastDefn(_, _)
LastDefn(word, i) ==
    IF i = 0 THEN ""
    ELSE IF inserted[i].word = word THEN inserted[i].defn
    ELSE LastDefn(word, i - 1)

StoredDefn(word) == LastDefn(word, Len(inserted))

\* string begins with prefix
BeginsWith(string, prefix) ==
    /\ Len(prefix) <= Len(string)
    /\ SubSeq(string, 1, Len(prefix)) = prefix

\* string holds token as a contiguous substring
Contains(string, token) ==
    \E k \in 0..(Len(string) - Len(token)) : SubSeq(string, k + 1, k + Len(token)) = token

\* The elements of a list
Elements(list) == { list[i] : i \in 1..Len(list) }

\* No element of a list occurs in it twice
NoDuplicates(list) == \A i, j \in 1..Len(list) : list[i] = list[j] => i = j

\* The Dictionary has answered a query op
Asked(op) == query.op = op

\* ------------------------------------------------------------ C13
\* C13: is_word(W) is true for every inserted word W and false for every
\* string that was not inserted.
C13_IsWordIffInserted ==
    Asked("is_word") => (query.ret = IsStored(query.arg))

\* ------------------------------------------------------------ C14
\* C14: has_prefix(P) is true exactly when P is empty or some stored word
\* begins with P.
C14_HasPrefixIffSomeWordBegins ==
    Asked("has_words_starting_with") =>
        (query.ret = (query.arg = << >> \/ \E w \in StoredWords : BeginsWith(w, query.arg)))

\* ------------------------------------------------------------ C15
\* C15: for a non-empty token, the words get_words_containing(token) returns
\* are, as a set, exactly the stored words that contain token.
C15_ContainsPartialExact ==
    (Asked("get_words_containing") /\ query.arg # << >>) =>
        Elements(query.ret) = { w \in StoredWords : Contains(w, query.arg) }

\* ------------------------------------------------------------ C16
\* Reader r has returned from its call
Finished(r) == readers[r].stack = << >>

\* What the call of reader r returns when it runs alone
AloneResult(r) == contains_partial(root, readers[r].token, FALSE).word_list

\* C16: each of two readers whose calls of contains_partial interleave gets
\* the result that its call gives when it runs alone.
C16_ReadersGetAloneResult ==
    \A r \in Readers : Finished(r) => readers[r].word_list = AloneResult(r)

\* ------------------------------------------------------------ C17
\* The step is an insert; the word and the definition it inserts
InsertStep == Len(inserted') = Len(inserted) + 1
NewWord == inserted'[Len(inserted')].word
NewDefn == inserted'[Len(inserted')].defn

\* search and get_defn answer the same for string before and after the step
SameAnswers(string) ==
    /\ search(root', string) = search(root, string)
    /\ get_defn(root', string) = get_defn(root, string)

\* C17: after insert(W, D), get_defn(W) returns D and W is a word; the
\* membership and the definition of every other stored word stay as they were;
\* and when W was stored already (D overwrites its definition), the insert
\* changes the answer of search and get_defn for no other string and leaves W
\* a word.
C17_InsertGetDefnRoundTrip ==
    [][InsertStep =>
          /\ get_defn(root', NewWord) = PyStr(NewDefn)
          /\ search(root', NewWord)
          /\ \A w \in StoredWords \ {NewWord} : SameAnswers(w)
          /\ IsStored(NewWord) =>
                /\ search(root, NewWord)
                /\ \A string \in QueryStrings \ {NewWord} : SameAnswers(string)]_vars

\* A word has been inserted with one definition and then again with another,
\* and another word is stored, of which the first is a prefix
C17_Witness ==
    \E i, j, k \in 1..Len(inserted) :
        /\ i < j
        /\ inserted[i].word = inserted[j].word
        /\ inserted[i].defn # inserted[j].defn
        /\ k < j
        /\ inserted[k].word # inserted[j].word
        /\ BeginsWith(inserted[k].word, inserted[j].word)

\* ------------------------------------------------------------ C18
\* C18: get_defn(S) returns False for every string S that is not a stored
\* word, a proper prefix of a stored word included.
C18_GetDefnFalseUnlessStored ==
    (Asked("get_defn") /\ ~IsStored(query.arg)) => query.ret = PyFalse

\* ------------------------------------------------------------ C19
\* C19: get_words_starting_with(P) returns exactly the stored words that begin
\* with P, each once, and P first when P is a stored word (so the empty list
\* when no stored word begins with P).
C19_AutoCompleteExact ==
    Asked("get_words_starting_with") =>
        /\ Elements(query.ret) = { w \in StoredWords : BeginsWith(w, query.arg) }
        /\ NoDuplicates(query.ret)
        /\ IsStored(query.arg) => query.ret[1] = query.arg

\* P is a stored word that was inserted after a longer word beginning with P,
\* and three words are returned
C19_Witness ==
    /\ Asked("get_words_starting_with")
    /\ IsStored(query.arg)
    /\ inserted[1].word # query.arg
    /\ BeginsWith(inserted[1].word, query.arg)
    /\ Len(query.ret) = 3

\* ------------------------------------------------------------ C20
\* C20: for n >= 1, get_x_letter_words(n) returns only words of n characters,
\* and as a set exactly the stored words of n characters.
C20_XLetterWordsExact ==
    (Asked("get_x_letter_words") /\ query.arg >= 1) =>
        /\ \A i \in 1..Len(query.ret) : Len(query.ret[i]) = query.arg
        /\ Elements(query.ret) = { w \in StoredWords : Len(w) = query.arg }

\* A word of n characters is stored together with a shorter and a longer word,
\* and it is what is returned
C20_Witness ==
    /\ Asked("get_x_letter_words")
    /\ query.arg = 2
    /\ Len(query.ret) = 1
    /\ \E w \in StoredWords : Len(w) < 2
    /\ \E w \in StoredWords : Len(w) > 2

\* ------------------------------------------------------------ C21
\* The word list and the definition list that were inserted, taken in the
\* order order (a permutation of the indices)
WordsIn(order) == [i \in 1..Len(inserted) |-> inserted[order[i]].word]
DefsIn(order) == [i \in 1..Len(inserted) |-> inserted[order[i]].defn]

\* No word was inserted twice
NoDuplicateWords ==
    \A i, j \in 1..Len(inserted) : inserted[i].word = inserted[j].word => i = j

\* The trie t answers search and get_defn as the trie of the Dictionary does
SameObservableState(t) ==
    \A string \in QueryStrings :
        /\ search(t, string) = search(root, string)
        /\ get_defn(t, string) = get_defn(root, string)

\* C21: the trie built by build_trie_defs answers search and get_defn the same
\* for every order of a word list without duplicate words, and every inserted
\* word is a word and has the definition of its last occurrence in the list.
C21_BuildOrderIndependent ==
    (query = NoQuery) =>
        /\ root = build_trie_defs(Trie, WordsIn([i \in 1..Len(inserted) |-> i]),
                                  DefsIn([i \in 1..Len(inserted) |-> i]))
        /\ NoDuplicateWords =>
              \A order \in Permutations(1..Len(inserted)) :
                  SameObservableState(build_trie_defs(Trie, WordsIn(order), DefsIn(order)))
        /\ \A w \in StoredWords :
              /\ search(root, w)
              /\ get_defn(root, w) = PyStr(StoredDefn(w))

\* Three different words have been inserted, one a prefix of another and
\* inserted after it, with different definitions
C21_Witness ==
    /\ query = NoQuery
    /\ Len(inserted) = 3
    /\ NoDuplicateWords
    /\ BeginsWith(inserted[1].word, inserted[2].word)
    /\ inserted[1].defn # inserted[2].defn

\* ------------------------------------------------------------ C22
\* The number of times char occurs in string
Count(string, char) == Cardinality({ i \in 1..Len(string) : string[i] = char })

\* a is a permutation of all the letters of b
IsPermutation(a, b) ==
    /\ Len(a) = Len(b)
    /\ \A i \in 1..Len(a) : Count(a, a[i]) = Count(b, a[i])

\* a uses no letter more often than b has it
IsSubMultiset(a, b) == \A i \in 1..Len(a) : Count(a, a[i]) <= Count(b, a[i])

\* C22: find_anagrams(W) returns, without duplicates, exactly the stored words
\* that are permutations of all the letters of W.
C22_FindAnagramsExact ==
    Asked("find_anagrams") =>
        /\ NoDuplicates(query.ret)
        /\ Elements(query.ret) = { w \in StoredWords : IsPermutation(w, query.arg) }

\* W has a letter twice, so that its permutations repeat, and the word found
\* is another order of its letters
C22_Witness ==
    /\ Asked("find_anagrams")
    /\ query.arg = <<"A", "A", "B">>
    /\ query.ret = << <<"A", "B", "A">> >>

\* ------------------------------------------------------------ C23
\* C23: find_subanagrams(W) returns, without duplicates, exactly the stored
\* non-empty words that use no letter more often than W has it.
C23_FindSubanagramsExact ==
    Asked("find_subanagrams") =>
        /\ NoDuplicates(query.ret)
        /\ Elements(query.ret) =
               { w \in StoredWords : w # << >> /\ IsSubMultiset(w, query.arg.word) }

\* ------------------------------------------------------------ C24
\* The table get_word_score reads for the argument letter_scoring
TableOf(letter_scoring) ==
    IF letter_scoring = NoScoring THEN LETTER_SCORING ELSE letter_scoring

\* Every character of word is a letter of the alphabet
InAlphabet(word) == \A i \in 1..Len(word) : word[i] \in DOMAIN LETTER_DICTIONARY

\* table has a score for every letter of word
InTable(word, table) ==
    \A i \in 1..Len(word) : LETTER_DICTIONARY[word[i]] < Len(table)

\* The sum of the scores table gives the first n letters of word
RECURSIVE SumOfScores(_, _, _)
SumOfScores(word, table, n) ==
    IF n = 0 THEN 0
    ELSE SumOfScores(word, table, n - 1) + table[LETTER_DICTIONARY[word[n]] + 1]

\* C24: get_word_score(word, table) returns the sum of the table's scores of
\* the letters of word (0 for the empty word), and ends in an error when word
\* holds a character that is not in the letter alphabet.
C24_WordScoreIsSum ==
    Asked("get_word_score") =>
        /\ (InAlphabet(query.arg.word)
              /\ InTable(query.arg.word, TableOf(query.arg.letter_scoring))) =>
                 query.ret = [raised |-> NoError,
                              value |-> SumOfScores(query.arg.word,
                                                    TableOf(query.arg.letter_scoring),
                                                    Len(query.arg.word))]
        /\ ~InAlphabet(query.arg.word) => query.ret.raised # NoError

\* A word of three letters, a blank tile among them, is scored with a table
\* that is given
C24_Witness ==
    /\ Asked("get_word_score")
    /\ query.arg.word = <<"Q", BLANK_TILE_CHAR, "A">>
    /\ query.arg.letter_scoring # NoScoring
    /\ query.ret = [raised |-> NoError, value |-> 45]

\* ------------------------------------------------------------ C27
\* C27: the root of the trie is not the end of a word, whatever word list and
\* limit the trie is built from: the empty string is never a stored word.
C27_RootNeverTerminal ==
    /\ ~root[<< >>].end
    /\ ~search(root, << >>)

\* ------------------------------------------------------------ C30
\* C30: once an object has been constructed with the default letter
\* distribution, LETTER_LIST holds the tiles of LETTER_DISTRIBUTION, each letter
\* as often as stated and 100 tiles in all, however many objects are
\* constructed.
C30_BagHoldsDistribution ==
    LETTER_LIST # << >> =>
        /\ Len(LETTER_LIST) = 100
        /\ \A i \in 1..Len(LETTER_DISTRIBUTION) :
              Count(LETTER_LIST, LETTER_DISTRIBUTION[i][1]) =
                  float(SubSeq(LETTER_DISTRIBUTION[i], 2, Len(LETTER_DISTRIBUTION[i])))

\* ------------------------------------------------------------ C25
\* The cells of the first i letters of the observed play that were empty
\* before the call, in word order
RECURSIVE NewCells(_)
NewCells(i) ==
    IF i = 0 THEN << >>
    ELSE IF NewlyPlaced(i) THEN Append(NewCells(i - 1), <<FootRow(i), FootCol(i)>>)
    ELSE NewCells(i - 1)

InFootprint(r, c) == \E i \in 1..WordLen : FootRow(i) = r /\ FootCol(i) = c

\* C25: after an accepted play_word every cell of the footprint holds the
\* upper-cased letter of the word, every other cell is as before the call, and
\* last_play lists exactly the footprint cells that were empty before the
\* call, in word order and without repeats.
C25_AcceptedPlayFrame ==
    (Observed /\ Accepted) =>
        /\ \A i \in 1..WordLen :
              /\ OnGrid(FootRow(i), FootCol(i))
              /\ board[FootRow(i) + 1][FootCol(i) + 1] = WordLetter(i)
        /\ \A r \in 0 .. Len(before) - 1 : \A c \in 0 .. Len(before[1]) - 1 :
              ~InFootprint(r, c) => board[r + 1][c + 1] = before[r + 1][c + 1]
        /\ last_play = NewCells(WordLen)
        /\ NoDuplicates(last_play)

\* An accepted play of a lower-case word that reuses a tile and places another
C25_Witness ==
    /\ Observed
    /\ Accepted
    /\ \E i \in 1..WordLen : call.word[i] # WordLetter(i)
    /\ \E i \in 1..WordLen : ~NewlyPlaced(i)
    /\ \E i \in 1..WordLen : NewlyPlaced(i)
    /\ \E r \in 1..Len(before) : \E c \in 1..Len(before[1]) :
          ~InFootprint(r - 1, c - 1) /\ before[r][c] # None

\* ------------------------------------------------------------ C26
\* What the perpendicular check of set_word adds to cross_scores for the i-th
\* letter, newly placed at its footprint cell: [raised, value]
CrossCheckOf(i) ==
    _cross_check(board, WordLetter(i), FootRow(i), FootCol(i), call.direction,
                 get_multiplier(multipliers, FootRow(i), FootCol(i)))

\* C26: the perpendicular word scored for a newly placed letter consists only
\* of the on-grid tiles contiguous with it: the check adds the cross-word score
\* over those tiles when the letter has a perpendicular neighbour on the grid
\* and nothing otherwise, so a tile on the opposite edge of the board is
\* neither a neighbour nor part of the score.
C26_CrossWordStaysOnGrid ==
    (Observed /\ Accepted) =>
        \A i \in 1..WordLen :
            (NewlyPlaced(i) /\ CrossCheckOf(i).raised = NoError) =>
                CrossCheckOf(i).value =
                    (IF HasPerpNeighbour(i) THEN CrossWordScore(i) ELSE 0)

\* ------------------------------------------------------------ C28
\* C28: in every state reached from the empty board by play_word and undo_play
\* calls, the board is empty or its center cell holds a tile.
C28_EmptyOrCenterFilled ==
    is_empty(board) \/ Cell(board, Len(board) \div 2, Len(board[1]) \div 2) # None

\* ------------------------------------------------------------ C29
\* The coordinates of the cells of b that hold a tile
FilledCells(b) ==
    { cell \in { <<r, c>> : r \in 0 .. Len(b) - 1, c \in 0 .. Len(b[1]) - 1 } :
          b[cell[1] + 1][cell[2] + 1] # None }

\* Two cells that share a side
Adjacent(x, y) ==
    \/ x[1] = y[1] /\ (x[2] = y[2] + 1 \/ y[2] = x[2] + 1)
    \/ x[2] = y[2] /\ (x[1] = y[1] + 1 \/ y[1] = x[1] + 1)

\* The cells of filled reached from the cells of region through shared sides
RECURSIVE Region(_, _)
Region(region, filled) ==
    IF \E x \in filled \ region : \E y \in region : Adjacent(x, y)
    THEN Region({ x \in filled : x \in region \/ \E y \in region : Adjacent(x, y) },
                filled)
    ELSE region

Connected(filled) ==
    filled = {} \/ Region({CHOOSE x \in filled : TRUE}, filled) = filled

\* C29: in every state reached from the empty board by play_word and undo_play
\* calls, the filled cells form a single orthogonally connected region.
C29_TilesConnected == Connected(FilledCells(board))

====
